---------------------------- MODULE Spec2Model ----------------------------
(***************************************************************************)
(* The transaction mempool of hypersdk (mempool/mempool.go): two sorted    *)
(* mempools (price, max first; expiry, min first), the payer index         *)
(* [owned], the lease set, and the coordinator's operations.               *)
(*                                                                         *)
(* Every operation of the coordinator runs under th.mu, so it is one       *)
(* atomic action.  Build calls a caller-supplied function once per         *)
(* iteration while it holds the lock: its loop is modelled one iteration   *)
(* per step, the verdict of the callback being the step's input, and no    *)
(* other operation is enabled until Build has returned (pc = "idle").      *)
(*                                                                         *)
(* SortedMempool (the indexed priority queue) is not among the source      *)
(* files; it is modelled from section 4.1 of the specification as the set  *)
(* of its entries, the order among entries of equal score left open.       *)
(***************************************************************************)
EXTENDS Integers, Sequences, FiniteSets

---------------------------------------------------------------------------
(* Bounds of the model *)

\* largest maxSize a mempool is constructed with
MaxCapacity == 2
\* largest maxPayerSize a mempool is constructed with
MaxPayerCap == 1
\* longest batch handed to Add, Remove and ClearLease (a call with a longer
\* batch leaves what the calls with its items, one after the other, leave)
MaxBatch == 1
\* longest batch the laws about batches are stated for
MaxLawBatch == 2
\* largest count handed to LeaseItems
MaxLeaseCount == 2
\* SetMinTimestamp is called with t in -MaxTimestamp .. MaxTimestamp
MaxTimestamp == 1
\* most calls that hold th.mu for reading at one time
MaxReaders == 2
\* width, in bits, of the machine words the model computes with (64 in the
\* program): int64 values lie in -2^(IntBits-1) .. 2^(IntBits-1)-1
IntBits == 8

---------------------------------------------------------------------------
(* Items: the four accessors of the Item interface *)

Payers == {"p1", "p2"}

\* The items handed to the mempool.  Ids 1 and 3 share the payer; ids 2 and
\* 3 share the unit price; ids 1 and 2 expire together and id 3 expires at a
\* negative timestamp; id 1 is also submitted a second time with another
\* price and expiry.
Items ==
    { [id |-> 1, payer |-> "p1", price |-> 1, expiry |-> 0],
      [id |-> 1, payer |-> "p1", price |-> 3, expiry |-> 1],
      [id |-> 2, payer |-> "p2", price |-> 2, expiry |-> 0],
      [id |-> 3, payer |-> "p1", price |-> 2, expiry |-> 0 - 1] }

IDs == {it.id : it \in Items}

\* The zero value of T, returned with ok = false
NoItem == [id |-> 0, payer |-> "", price |-> 0, expiry |-> 0]

\* Sequences over S of length at most n
RECURSIVE SeqsUpTo(_, _)
SeqsUpTo(S, n) ==
    IF n = 0 THEN {<<>>}
    ELSE LET shorter == SeqsUpTo(S, n - 1)
         IN  shorter \cup {Append(s, x) : s \in {t \in shorter : Len(t) = n - 1}, x \in S}

Batches == SeqsUpTo(Items, MaxBatch)

\* the batches a law about Add(xs) ranges over
LawBatches == SeqsUpTo(Items, MaxLawBatch)

\* Remove reads the id and the payer of an item only: one item per id
RemoveBatches == SeqsUpTo({CHOOSE it \in Items : it.id = id : id \in IDs}, MaxBatch)

\* ClearLease is handed items the builder leased.  (ClearLease of any other
\* batch leaves the state that ClearLease(<<>>) and an Add of the batch
\* leave.)
RestoreBatches(leased) == SeqsUpTo({it \in Items : it.id \in leased.ids}, MaxBatch)

Range(s) == {s[i] : i \in 1..Len(s)}

\* the timestamps handed to SetMinTimestamp
Timestamps == (0 - MaxTimestamp)..MaxTimestamp

---------------------------------------------------------------------------
(* Machine integers *)

Modulus == 2 ^ IntBits

\* uint64(x) of an int64 x: the same bits read as an unsigned number
ToUint64(x) == x % Modulus

\* func(item T) uint64 { return item.UnitPrice() }
PriceScore(item) == item.price

\* func(item T) uint64 { return uint64(item.Expiry()) }
TimeScore(item) == ToUint64(item.expiry)

---------------------------------------------------------------------------
(* SortedMempool: a set of entries [item, score] *)

IpqNew == {}

IpqAdd(q, item, score) == q \cup {[item |-> item, score |-> score]}

IpqRemove(q, id) == {e \in q : e.item.id # id}

IpqHas(q, id) == \E e \in q : e.item.id = id

IpqLen(q) == Cardinality(q)

\* the entries that can be at the root of a max heap / of a min heap
IpqMaxSet(q) == {e \in q : \A f \in q : f.score <= e.score}

IpqMinSet(q) == {e \in q : \A f \in q : e.score <= f.score}

\* SetMinVal(val): pop the root of the min heap while its score is below
\* val; the pairs <<queue left, items removed in order>> it can end with
RECURSIVE IpqSetMinVal(_, _)
IpqSetMinVal(q, val) ==
    LET roots == {e \in IpqMinSet(q) : e.score < val}
    IN  IF roots = {} THEN {<<q, <<>> >>}
        ELSE UNION {{<<r[1], <<e.item>> \o r[2]>> : r \in IpqSetMinVal(q \ {e}, val)}
                    : e \in roots}

IpqIds(q) == {e.item.id : e \in q}

IpqItems(q) == {e.item : e \in q}

---------------------------------------------------------------------------
(* State *)

VARIABLES
    maxSize,            \* th.maxSize
    maxPayerSize,       \* th.maxPayerSize
    exemptPayers,       \* th.exemptPayers
    pm,                 \* th.pm, scored by unit price
    tm,                 \* th.tm, scored by uint64(expiry)
    owned,              \* th.owned: payer -> [ok, ids]; ok = FALSE when the map has no entry
    leasedItems,        \* th.leasedItems: [nil |-> TRUE] is the nil set
    mu,                 \* th.mu: whether a writer holds it, how many readers hold it
    pc,                 \* "idle", or where Build stands: "loop", "restore"
    restorableItems,    \* Build's local restorableItems
    err,                \* Build's local err
    last,               \* the last call and what it returned
    leasedSinceClear,   \* history: ids returned by LeaseItems since the last ClearLease
    pass                \* history of the running Build, kept in BuildSpec: the mempool it
                        \* started from, the items handed to f, the payers f had removed,
                        \* the number of calls of f

vars == <<maxSize, maxPayerSize, exemptPayers, pm, tm, owned, leasedItems, mu,
          pc, restorableItems, err, last, leasedSinceClear, pass>>

config == <<maxSize, maxPayerSize, exemptPayers>>

buildLocals == <<restorableItems, err, pass>>

NilSet == [nil |-> TRUE, ids |-> {}]

\* set.NewSet[ids.ID](count): an empty set that is not nil
NewSet == [nil |-> FALSE, ids |-> {}]

\* A Go map from payers to sets: what o[k] yields (the set, and whether the
\* key is present), o[k] = v and delete(o, k)
NoEntry == [ok |-> FALSE, ids |-> {}]

EmptyMap == [p \in Payers |-> NoEntry]

MapHas(o, k) == o[k].ok

MapGet(o, k) == o[k].ids

MapPut(o, k, v) == [o EXCEPT ![k] = [ok |-> TRUE, ids |-> v]]

MapDelete(o, k) == [o EXCEPT ![k] = NoEntry]

\* no Build is running
NoPass == [start |-> [pm |-> IpqNew, tm |-> IpqNew, owned |-> EmptyMap],
           called |-> {}, dropped |-> {}, count |-> 0]

\* New, called with maxSize among sizes: both sorted mempools empty, no
\* payer entry, no lease; the error it returns (newMetrics registering on a
\* registry of its own) is nil
New(sizes) ==
    /\ maxSize \in sizes
    /\ maxPayerSize \in 0..MaxPayerCap
    /\ exemptPayers \in {{}, {"p1"}}
    /\ pm = IpqNew
    /\ tm = IpqNew
    /\ owned = EmptyMap
    /\ leasedItems = NilSet
    /\ mu = [writer |-> FALSE, readers |-> 0]
    /\ pc = "idle"
    /\ restorableItems = <<>>
    /\ err = "nil"
    /\ last = [op |-> "New", arg |-> 0, out |-> "nil"]
    /\ leasedSinceClear = {}
    /\ pass = NoPass

\* the callers keep to the contract of New: maxSize > 0
Init == New(1..MaxCapacity)

---------------------------------------------------------------------------
(* Internal routines, on a record m = [pm, tm, owned] *)

Mem == [pm |-> pm, tm |-> tm, owned |-> owned]

\* (mutant) the payer's entry is deleted whatever it still holds
removeFromOwnedDeletes(o, item) ==
    IF ~MapHas(o, item.payer) THEN o ELSE MapDelete(o, item.payer)

removeFromOwned(o, item) ==
    IF ~MapHas(o, item.payer) THEN o
    ELSE LET acct == MapGet(o, item.payer) \ {item.id}
         IN  IF acct = {} THEN MapDelete(o, item.payer)
             ELSE MapPut(o, item.payer, acct)

\* (mutant) the lease set is not consulted
LeaseBlocksSkipped(leased, item) == FALSE

\* the lease check of add
LeaseBlocks(leased, item) == ~leased.nil /\ item.id \in leased.ids

\* (mutant) only the very same item counts as a duplicate
DuplicateSameItem(q, item) == \E e \in q : e.item = item

\* the duplicate check of add
Duplicate(q, item) == IpqHas(q, item.id)

\* (mutant) the exempt payers are not consulted
PayerFullNoExempt(acct, sender) == Cardinality(acct) = maxPayerSize

\* (mutant) the payer is full only once it is over the cap
PayerFullOver(acct, sender) ==
    sender \notin exemptPayers /\ Cardinality(acct) > maxPayerSize

\* the payer check of add, on the payer's set acct
PayerFull(acct, sender) ==
    sender \notin exemptPayers /\ Cardinality(acct) = maxPayerSize

\* (mutant) the capacity check is off by one
OverCapacityByTwo(q) == IpqLen(q) > maxSize + 1

\* the capacity check of add
OverCapacity(q) == IpqLen(q) > maxSize

\* (mutant) the highest paying entry is popped
LowItemPopsMax(q) == IpqMaxSet(q)

\* lowItem, _ := th.pm.PopMin(): the entries it can pop
LowItem(q) == IpqMinSet(q)

\* one iteration of add's loop: the mempools it can leave
addItem(m, leased, item) ==
    IF LeaseBlocks(leased, item) THEN {m}
    ELSE IF Duplicate(m.pm, item) THEN {m}
    ELSE LET sender == item.payer
             o1 == IF MapHas(m.owned, sender) THEN m.owned
                   ELSE MapPut(m.owned, sender, {})
         IN  IF PayerFull(MapGet(o1, sender), sender) THEN {[m EXCEPT !.owned = o1]}
             ELSE LET m1 == [pm    |-> IpqAdd(m.pm, item, PriceScore(item)),
                             tm    |-> IpqAdd(m.tm, item, TimeScore(item)),
                             owned |-> MapPut(o1, sender, MapGet(o1, sender) \cup {item.id})]
                  IN  IF OverCapacity(m1.pm)
                      THEN {[pm    |-> m1.pm \ {low},
                             tm    |-> IpqRemove(m1.tm, low.item.id),
                             owned |-> removeFromOwned(m1.owned, low.item)]
                            : low \in LowItem(m1.pm)}
                      ELSE {m1}

RECURSIVE add(_, _, _)
add(m, leased, items) ==
    IF items = <<>> THEN {m}
    ELSE UNION {add(m1, leased, Tail(items)) : m1 \in addItem(m, leased, Head(items))}

\* (mutant) the popped item is left in tm and owned
popMaxPriceOnly(m) ==
    IF m.pm = {} THEN {<<m, [item |-> NoItem, ok |-> FALSE]>>}
    ELSE {<<[m EXCEPT !.pm = m.pm \ {max}], [item |-> max.item, ok |-> TRUE]>>
          : max \in IpqMaxSet(m.pm)}

\* popMax: the pairs <<mempool, result>> it can leave
popMax(m) ==
    IF m.pm = {} THEN {<<m, [item |-> NoItem, ok |-> FALSE]>>}
    ELSE {<<[pm    |-> m.pm \ {max},
             tm    |-> IpqRemove(m.tm, max.item.id),
             owned |-> removeFromOwned(m.owned, max.item)],
            [item |-> max.item, ok |-> TRUE]>> : max \in IpqMaxSet(m.pm)}

removeAccount(m, sender) ==
    IF ~MapHas(m.owned, sender) THEN m
    ELSE [pm    |-> {e \in m.pm : e.item.id \notin MapGet(m.owned, sender)},
          tm    |-> {e \in m.tm : e.item.id \notin MapGet(m.owned, sender)},
          owned |-> MapDelete(m.owned, sender)]

SetMem(m) ==
    /\ pm' = m.pm
    /\ tm' = m.tm
    /\ owned' = m.owned

Idle == pc = "idle"

\* (mutant) every method takes th.mu with RLock
LockModeAlwaysRead(op) == "read"

\* how each method takes th.mu: RLock ("read") in PeekMax, PeekMin and Len,
\* Lock ("write") in Has and in every other method
LockMode(op) ==
    IF op \in {"PeekMax", "PeekMin", "Len"} THEN "read" ELSE "write"

\* sync.RWMutex: RLock waits for the writer only, Lock for everyone
CanAcquire(mode) ==
    IF mode = "read" THEN ~mu.writer
    ELSE ~mu.writer /\ mu.readers = 0

\* a method that takes th.mu on entry and releases it (defer) on return,
\* running in one step
Locked(op) ==
    /\ CanAcquire(LockMode(op))
    /\ UNCHANGED mu

---------------------------------------------------------------------------
(* Operations *)

Add(items) ==
    /\ Locked("Add")
    /\ \E m \in add(Mem, leasedItems, items) : SetMem(m)
    /\ last' = [op |-> "Add", arg |-> 0, out |-> 0]
    /\ UNCHANGED <<config, leasedItems, pc, buildLocals, leasedSinceClear>>

\* Has reports whether pm holds itemID
Has(itemID) ==
    /\ Locked("Has")
    /\ last' = [op |-> "Has", arg |-> itemID, out |-> IpqHas(pm, itemID)]
    /\ UNCHANGED <<config, pm, tm, owned, leasedItems, pc, buildLocals, leasedSinceClear>>

\* what PeekMax / PeekMin of a sorted mempool can return
peekMax(q) ==
    IF q = {} THEN {[item |-> NoItem, ok |-> FALSE]}
    ELSE {[item |-> e.item, ok |-> TRUE] : e \in IpqMaxSet(q)}

peekMin(q) ==
    IF q = {} THEN {[item |-> NoItem, ok |-> FALSE]}
    ELSE {[item |-> e.item, ok |-> TRUE] : e \in IpqMinSet(q)}

\* (mutant) PeekMax reads the low end of pm
PeekMaxReadsMin ==
    /\ Locked("PeekMax")
    /\ \E r \in peekMin(pm) : last' = [op |-> "PeekMax", arg |-> 0, out |-> r]
    /\ UNCHANGED <<config, pm, tm, owned, leasedItems, pc, buildLocals, leasedSinceClear>>

PeekMax ==
    /\ Locked("PeekMax")
    /\ \E r \in peekMax(pm) : last' = [op |-> "PeekMax", arg |-> 0, out |-> r]
    /\ UNCHANGED <<config, pm, tm, owned, leasedItems, pc, buildLocals, leasedSinceClear>>

PeekMin ==
    /\ Locked("PeekMin")
    /\ \E r \in peekMin(pm) : last' = [op |-> "PeekMin", arg |-> 0, out |-> r]
    /\ UNCHANGED <<config, pm, tm, owned, leasedItems, pc, buildLocals, leasedSinceClear>>

PopMax ==
    /\ Locked("PopMax")
    /\ \E r \in popMax(Mem) :
          /\ SetMem(r[1])
          /\ last' = [op |-> "PopMax", arg |-> 0, out |-> r[2]]
    /\ UNCHANGED <<config, leasedItems, pc, buildLocals, leasedSinceClear>>

\* PopMin pops the lowest priced entry of pm and mirrors it in tm and owned
popMin(m) ==
    IF m.pm = {} THEN {<<m, [item |-> NoItem, ok |-> FALSE]>>}
    ELSE {<<[pm    |-> m.pm \ {min},
             tm    |-> IpqRemove(m.tm, min.item.id),
             owned |-> removeFromOwned(m.owned, min.item)],
            [item |-> min.item, ok |-> TRUE]>> : min \in IpqMinSet(m.pm)}

PopMin ==
    /\ Locked("PopMin")
    /\ \E r \in popMin(Mem) :
          /\ SetMem(r[1])
          /\ last' = [op |-> "PopMin", arg |-> 0, out |-> r[2]]
    /\ UNCHANGED <<config, leasedItems, pc, buildLocals, leasedSinceClear>>

\* (mutant) the loop of Remove returns after its first item
removeFirstOnly(m, items) ==
    IF items = <<>> THEN m
    ELSE LET item == Head(items)
         IN  [pm    |-> IpqRemove(m.pm, item.id),
              tm    |-> IpqRemove(m.tm, item.id),
              owned |-> removeFromOwned(m.owned, item)]

\* the loop of Remove
RECURSIVE remove(_, _)
remove(m, items) ==
    IF items = <<>> THEN m
    ELSE LET item == Head(items)
         IN  remove([pm    |-> IpqRemove(m.pm, item.id),
                     tm    |-> IpqRemove(m.tm, item.id),
                     owned |-> removeFromOwned(m.owned, item)], Tail(items))

Remove(items) ==
    /\ Locked("Remove")
    /\ SetMem(remove(Mem, items))
    /\ last' = [op |-> "Remove", arg |-> 0, out |-> 0]
    /\ UNCHANGED <<config, leasedItems, pc, buildLocals, leasedSinceClear>>

\* Len (the name Len is the Sequences module's)
MempoolLen ==
    /\ Locked("Len")
    /\ last' = [op |-> "Len", arg |-> 0, out |-> IpqLen(pm)]
    /\ UNCHANGED <<config, pm, tm, owned, leasedItems, pc, buildLocals, leasedSinceClear>>

RemoveAccount(sender) ==
    /\ Locked("RemoveAccount")
    /\ SetMem(removeAccount(Mem, sender))
    /\ last' = [op |-> "RemoveAccount", arg |-> sender, out |-> 0]
    /\ UNCHANGED <<config, leasedItems, pc, buildLocals, leasedSinceClear>>

\* the loop of SetMinTimestamp over the items tm.SetMinVal removed
RECURSIVE sweep(_, _)
sweep(m, removed) ==
    IF removed = <<>> THEN m
    ELSE LET item == Head(removed)
         IN  sweep([pm    |-> IpqRemove(m.pm, item.id),
                    tm    |-> m.tm,
                    owned |-> removeFromOwned(m.owned, item)], Tail(removed))

SetMinTimestamp(t) ==
    /\ Locked("SetMinTimestamp")
    /\ \E r \in IpqSetMinVal(tm, ToUint64(t)) :
          /\ SetMem(sweep([pm |-> pm, tm |-> r[1], owned |-> owned], r[2]))
          /\ last' = [op |-> "SetMinTimestamp", arg |-> 0, out |-> r[2]]
    /\ UNCHANGED <<config, leasedItems, pc, buildLocals, leasedSinceClear>>

---------------------------------------------------------------------------
(* Build *)

\* what f can return: (cont, restore, removeAcct, err)
Verdicts ==
    [cont : BOOLEAN, restore : BOOLEAN, removeAcct : BOOLEAN, err : {"nil", "error"}]

\* th.mu.Lock(); restorableItems := []T{}; var err error
BuildLockStep ==
    /\ CanAcquire(LockMode("Build"))
    /\ mu' = [mu EXCEPT !.writer = TRUE]
    /\ pc' = "loop"
    /\ restorableItems' = <<>>
    /\ err' = "nil"
    /\ last' = [op |-> "BuildLock", arg |-> 0, out |-> 0]
    /\ UNCHANGED <<config, pm, tm, owned, leasedItems, leasedSinceClear>>

BuildLock == BuildLockStep /\ UNCHANGED pass

\* (mutant) an item to restore is put back into pm at once
buildBodyRestoresAtOnce(m, max, v) ==
    LET m1 == IF v.restore THEN m
              ELSE [pm    |-> m.pm \ {max},
                    tm    |-> IpqRemove(m.tm, max.item.id),
                    owned |-> removeFromOwned(m.owned, max.item)]
    IN  IF v.removeAcct THEN removeAccount(m1, max.item.payer) ELSE m1

\* the body of Build's loop on the popped entry max, f answering v
buildBody(m, max, v) ==
    LET m0 == [m EXCEPT !.pm = m.pm \ {max}]
        m1 == IF v.restore THEN m0
              ELSE [pm    |-> m0.pm,
                    tm    |-> IpqRemove(m0.tm, max.item.id),
                    owned |-> removeFromOwned(m0.owned, max.item)]
    IN  IF v.removeAcct THEN removeAccount(m1, max.item.payer) ELSE m1

\* !cont || fErr != nil
Breaks(v) == ~v.cont \/ v.err # "nil"

\* one iteration of the loop: the entry max is popped, f answers v
BuildIterStep(v, max) ==
    /\ SetMem(buildBody(Mem, max, v))
    /\ restorableItems' = IF v.restore THEN Append(restorableItems, max.item)
                          ELSE restorableItems
    /\ last' = [op |-> "f", arg |-> max.item, out |-> v]
    /\ err' = IF Breaks(v) THEN v.err ELSE err
    /\ pc' = IF Breaks(v) THEN "restore" ELSE "loop"
    /\ UNCHANGED <<config, leasedItems, mu, leasedSinceClear>>

BuildIter(v) ==
    /\ pc = "loop"
    /\ pm # {}
    /\ \E max \in IpqMaxSet(pm) : BuildIterStep(v, max)
    /\ UNCHANGED pass

\* (mutant) the restorable items are not put back
restoreNone(q, items) == q

\* for _, item := range restorableItems { th.pm.Add(item) }
RECURSIVE restoreAll(_, _)
restoreAll(q, items) ==
    IF items = <<>> THEN q
    ELSE restoreAll(IpqAdd(q, Head(items), PriceScore(Head(items))), Tail(items))

\* the loop has ended (pm empty, or a break): restore, unlock, return err
BuildReturnStep ==
    /\ pc = "restore" \/ (pc = "loop" /\ pm = {})
    /\ pm' = restoreAll(pm, restorableItems)
    /\ mu' = [mu EXCEPT !.writer = FALSE]
    /\ pc' = "idle"
    /\ last' = [op |-> "Build", arg |-> 0, out |-> err]
    /\ restorableItems' = <<>>
    /\ err' = "nil"
    /\ UNCHANGED <<config, tm, owned, leasedItems, leasedSinceClear>>

BuildReturn == BuildReturnStep /\ UNCHANGED pass

---------------------------------------------------------------------------
(* Leases *)

\* the loop of LeaseItems: the triples <<mempool, leasedItems, txs>> it can
\* end with
RECURSIVE leaseLoop(_, _, _, _)
leaseLoop(m, leased, txs, count) ==
    IF ~(Len(txs) < count) THEN {<<m, leased, txs>>}
    ELSE UNION {IF r[2].ok
                THEN leaseLoop(r[1], [leased EXCEPT !.ids = @ \cup {r[2].item.id}],
                               Append(txs, r[2].item), count)
                ELSE {<<m, leased, txs>>} : r \in popMax(m)}

LeaseItems(count) ==
    /\ Locked("LeaseItems")
    /\ \E r \in leaseLoop(Mem, NewSet, <<>>, count) :
          /\ SetMem(r[1])
          /\ leasedItems' = r[2]
          /\ leasedSinceClear' = leasedSinceClear \cup {it.id : it \in Range(r[3])}
          /\ last' = [op |-> "LeaseItems", arg |-> count, out |-> r[3]]
    /\ UNCHANGED <<config, pc, buildLocals>>

ClearLease(restore) ==
    /\ Locked("ClearLease")
    /\ leasedItems' = NilSet
    /\ \E m \in add(Mem, NilSet, restore) : SetMem(m)
    /\ leasedSinceClear' = {}
    /\ last' = [op |-> "ClearLease", arg |-> 0, out |-> 0]
    /\ UNCHANGED <<config, pc, buildLocals>>

---------------------------------------------------------------------------

\* the calls other than Build
Calls ==
    \/ \E items \in Batches : Add(items)
    \/ \E id \in IDs : Has(id)
    \/ PeekMax
    \/ PeekMin
    \/ PopMax
    \/ PopMin
    \/ \E items \in RemoveBatches : Remove(items)
    \/ MempoolLen
    \/ \E sender \in Payers : RemoveAccount(sender)
    \/ \E t \in Timestamps : SetMinTimestamp(t)
    \/ \E count \in 0..MaxLeaseCount : LeaseItems(count)
    \/ \E restore \in RestoreBatches(leasedItems) : ClearLease(restore)

Next ==
    \/ Calls
    \/ BuildLock
    \/ \E v \in Verdicts : BuildIter(v)
    \/ BuildReturn

Spec == Init /\ [][Next]_vars

---------------------------------------------------------------------------
(* Build, with the history of the pass in [pass] *)

BuildLockRecorded ==
    /\ BuildLockStep
    /\ pass' = [start |-> Mem, called |-> {}, dropped |-> {}, count |-> 0]

BuildIterRecorded(v) ==
    /\ pc = "loop"
    /\ pm # {}
    /\ \E max \in IpqMaxSet(pm) :
          /\ BuildIterStep(v, max)
          /\ pass' = [pass EXCEPT !.called = @ \cup {max.item},
                                  !.dropped = IF v.removeAcct
                                              THEN @ \cup {max.item.payer} ELSE @,
                                  !.count = @ + 1]

BuildReturnRecorded ==
    /\ BuildReturnStep
    /\ pass' = NoPass

BuildNext ==
    \/ Calls
    \/ BuildLockRecorded
    \/ \E v \in Verdicts : BuildIterRecorded(v)
    \/ BuildReturnRecorded

BuildSpec == Init /\ [][BuildNext]_vars

---------------------------------------------------------------------------
(* Callers that hold th.mu for reading *)

\* th.mu.RLock() of a call that has not returned yet
RLock ==
    /\ CanAcquire("read")
    /\ mu.readers < MaxReaders
    /\ mu' = [mu EXCEPT !.readers = @ + 1]
    /\ UNCHANGED <<config, pm, tm, owned, leasedItems, pc, buildLocals, last, leasedSinceClear>>

\* the deferred th.mu.RUnlock() of such a call
RUnlock ==
    /\ mu.readers > 0
    /\ mu' = [mu EXCEPT !.readers = @ - 1]
    /\ UNCHANGED <<config, pm, tm, owned, leasedItems, pc, buildLocals, last, leasedSinceClear>>

\* one mempool with one item in flight, shared by readers and writers
LockInit ==
    /\ Init
    /\ maxSize = 1
    /\ maxPayerSize = 1
    /\ exemptPayers = {}

LockNext == Next \/ RLock \/ RUnlock

LockSpec == LockInit /\ [][LockNext]_vars



---------------------------------------------------------------------------
(* Properties *)

\* the payer of the items with this id
PayerOf(id) == (CHOOSE it \in Items : it.id = id).payer

\* the pairs <<payer, id>> of the payer index
OwnedPairs(o) == {<<p, id>> : p \in Payers, id \in IDs} \cap
                 {pr \in Payers \X IDs : pr[2] \in MapGet(o, pr[1])}

RECURSIVE SumOver(_, _)
SumOver(S, o) ==
    IF S = {} THEN 0
    ELSE LET p == CHOOSE x \in S : TRUE
         IN  Cardinality(MapGet(o, p)) + SumOver(S \ {p}, o)

OwnedTotal == SumOver(Payers, owned)

\* membership of the three indexes
Members == <<pm, tm, OwnedPairs(owned)>>

\* C1: between operations an id is in the price queue iff it is in the time
\* queue iff it is in owned[its payer].
C1_SymmetricPopulation ==
    Idle => \A id \in IDs :
               /\ IpqHas(pm, id) <=> IpqHas(tm, id)
               /\ IpqHas(pm, id) <=> id \in MapGet(owned, PayerOf(id))

\* C2: when Len has returned k, the time queue holds k entries and the sets
\* of owned hold k ids in all.
C2_LenAgrees ==
    (Idle /\ last.op = "Len") =>
        /\ IpqLen(pm) = last.out
        /\ IpqLen(tm) = last.out
        /\ OwnedTotal = last.out

\* C3: after every operation the price queue holds at most maxSize entries.
C3_Capacity == Idle => IpqLen(pm) <= maxSize

C3_Witness ==
    /\ Idle
    /\ last.op \in {"Add", "ClearLease", "Build"}
    /\ IpqLen(pm) = maxSize
    /\ maxSize = MaxCapacity

C5_LeaseDisjoint ==
    (Idle /\ ~leasedItems.nil) =>
        leasedItems.ids \cap (IpqIds(pm) \cup IpqIds(tm)) = {}

\* an Add has run during a lease that holds ids, and items are resident
C5_Witness ==
    /\ Idle
    /\ last.op = "Add"
    /\ ~leasedItems.nil
    /\ leasedItems.ids # {}
    /\ pm # {}

\* C6: an id returned by LeaseItems is not in the price queue until
\* ClearLease is called.
C6_LeaseBlocksReadmission ==
    Idle => leasedSinceClear \cap IpqIds(pm) = {}

\* C7: LeaseItems called while a lease is outstanding pops nothing and leaves
\* the lease set as it is.
C7_SecondLeaseRejected ==
    [][(~leasedItems.nil /\ last'.op = "LeaseItems")
        => (pm' = pm /\ leasedItems' = leasedItems)]_vars

\* C8: right after SetMinTimestamp(t) no item with expiry < t is in the
\* price queue, the time queue or owned.
C8_ExpirySweep ==
    [][\A t \in Timestamps : SetMinTimestamp(t) =>
          /\ \A it \in IpqItems(pm') \cup IpqItems(tm') : ~(it.expiry < t)
          /\ \A e \in pm \cup tm :
                e.item.id \in MapGet(owned', e.item.payer) => ~(e.item.expiry < t)]_vars

\* s is in non-decreasing expiry order
ExpiryOrdered(s) == \A i \in 1..Len(s) : \A j \in i..Len(s) : s[i].expiry <= s[j].expiry

\* C9: SetMinTimestamp(t) returns exactly the resident items with expiry < t,
\* in non-decreasing expiry order, and every item with expiry >= t stays in
\* the three indexes.
C9_SweepExact ==
    [][\A t \in Timestamps : SetMinTimestamp(t) =>
          /\ Range(last'.out) = {it \in IpqItems(tm) : it.expiry < t}
          /\ Len(last'.out) = Cardinality(Range(last'.out))
          /\ ExpiryOrdered(last'.out)
          /\ \A e \in pm : e.item.expiry >= t => e \in pm'
          /\ \A e \in tm : e.item.expiry >= t => e \in tm'
          /\ \A pr \in OwnedPairs(owned) :
                (\E e \in tm : e.item.id = pr[2] /\ e.item.expiry >= t)
                => pr \in OwnedPairs(owned')]_vars

\* C10: PeekMax returns a resident item of the highest unit price, PeekMin
\* one of the lowest; on an empty mempool both return ok = false; neither
\* changes the mempool.
C10_Peek ==
    /\ []((Idle /\ last.op = "PeekMax") =>
            IF pm = {} THEN ~last.out.ok
            ELSE /\ last.out.ok
                 /\ last.out.item \in IpqItems(pm)
                 /\ \A it \in IpqItems(pm) : it.price <= last.out.item.price)
    /\ []((Idle /\ last.op = "PeekMin") =>
            IF pm = {} THEN ~last.out.ok
            ELSE /\ last.out.ok
                 /\ last.out.item \in IpqItems(pm)
                 /\ \A it \in IpqItems(pm) : last.out.item.price <= it.price)
    /\ [][last'.op \in {"PeekMax", "PeekMin"}
            => UNCHANGED <<pm, tm, owned, leasedItems>>]_vars

\* PeekMax has answered on a mempool holding items of different prices
C10_Witness ==
    /\ Idle
    /\ last.op = "PeekMax"
    /\ last.out.ok
    /\ \E it \in IpqItems(pm) : it.price < last.out.item.price

---------------------------------------------------------------------------
(* Laws *)

\* membership of the three indexes of a mempool record
MembersOf(m) == <<m.pm, m.tm, OwnedPairs(m.owned)>>

\* no id of the batch is in the price queue
NoneResident(xs) == \A i \in 1..Len(xs) : ~IpqHas(pm, xs[i].id)

\* C11 as stated: from every state and for every batch xs that fits under
\* the capacity (so that Add evicts nothing), Add(xs) followed by Remove(xs)
\* leaves the membership of the three indexes as it was.
C11_AddRemoveAnyBatch ==
    Idle => \A xs \in LawBatches :
               IpqLen(pm) + Len(xs) <= maxSize
               => \A m \in add(Mem, leasedItems, xs) :
                     MembersOf(remove(m, xs)) = Members

\* C11 (amended): for every batch xs none of whose ids is resident, if
\* Add(xs) evicts no item that was resident, Add(xs) followed by Remove(xs)
\* leaves the membership of the three indexes as it was.
C11_AddRemove ==
    Idle => \A xs \in LawBatches :
               NoneResident(xs)
               => \A m \in add(Mem, leasedItems, xs) :
                     pm \subseteq m.pm => MembersOf(remove(m, xs)) = Members

\* after an Add, an item is resident and a batch of two items of other ids
\* gets an item admitted without evicting a resident one
C11_Witness ==
    /\ Idle
    /\ last.op = "Add"
    /\ pm # {}
    /\ \E xs \in LawBatches :
          /\ Len(xs) = 2
          /\ NoneResident(xs)
          /\ \E m \in add(Mem, leasedItems, xs) : pm \subseteq m.pm /\ m.pm # pm

\* C12: right after RemoveAccount(p) no item of payer p is in the price
\* queue or in the time queue, and owned has no entry for p.
C12_RemoveAccountClears ==
    (Idle /\ last.op = "RemoveAccount") =>
        /\ \A it \in IpqItems(pm) \cup IpqItems(tm) : it.payer # last.arg
        /\ ~MapHas(owned, last.arg)

\* C13: from every state, LeaseItems(n) followed at once by ClearLease of
\* the items it returned leaves the membership of the three indexes as it
\* was.
C13_LeaseClearRoundTrip ==
    Idle => \A n \in 0..MaxLeaseCount :
               \A r \in leaseLoop(Mem, NewSet, <<>>, n) :
                  \A m \in add(r[1], NilSet, r[3]) : MembersOf(m) = Members

\* C14: within one pass of Build, once f has answered restore = true for an
\* item of a payer, f is not called with another item of that payer.
C14_RestoredPayerSkipped ==
    (~Idle /\ last.op = "f") =>
        \A i \in 1..Len(restorableItems) :
           restorableItems[i].id # last.arg.id
           => restorableItems[i].payer # last.arg.payer

\* the id is in the price queue, the time queue and the payer's set
ResidentIn(m, it) ==
    /\ IpqHas(m.pm, it.id)
    /\ IpqHas(m.tm, it.id)
    /\ it.id \in MapGet(m.owned, it.payer)

\* what Build leaves when it returns after a break: the error f returned;
\* no consumed item in any index; every restored item in the price queue
BuildStopKeeps ==
    /\ last'.out = last.out.err
    /\ \A it \in pass.called \ Range(restorableItems) :
          /\ ~IpqHas(pm', it.id)
          /\ ~IpqHas(tm', it.id)
          /\ it.id \notin MapGet(owned', it.payer)
    /\ \A it \in Range(restorableItems) : it \in IpqItems(pm')

\* C15 as stated: when f breaks the loop, Build returns f's error, consumed
\* items are in no index, restored items are back in the price queue, and
\* every item that was resident when Build started and was not handed to f
\* is still in the three indexes.
C15_BuildStopLosesNothing ==
    [][(pc = "restore" /\ BuildReturnRecorded) =>
          /\ BuildStopKeeps
          /\ \A it \in IpqItems(pass.start.pm) \ pass.called :
                ResidentIn(pass.start, it)
                => ResidentIn([pm |-> pm', tm |-> tm', owned |-> owned'], it)]_vars

\* C15 (amended): the same, for the items not handed to f whose payer f did
\* not have removed.
C15_BuildStop ==
    [][(pc = "restore" /\ BuildReturnRecorded) =>
          /\ BuildStopKeeps
          /\ \A it \in IpqItems(pass.start.pm) \ pass.called :
                (ResidentIn(pass.start, it) /\ it.payer \notin pass.dropped)
                => ResidentIn([pm |-> pm', tm |-> tm', owned |-> owned'], it)]_vars

\* f has returned an error while an item was still waiting in the price
\* queue
C15_Witness ==
    /\ pc = "restore"
    /\ err = "error"
    /\ pass.called # {}
    /\ \E it \in IpqItems(pm) : it.payer \notin pass.dropped

\* no two entries of the queue share an id
UniqueIds(q) == \A e \in q : \A f \in q : e.item.id = f.item.id => e = f

\* C16: no queue holds two entries of one id; an add of an item whose id is
\* resident leaves the mempool as it is, and so does the second of two items
\* of one id in a batch once the first is resident.
C16_NoDuplicates ==
    Idle =>
      /\ UniqueIds(pm)
      /\ UniqueIds(tm)
      /\ \A x \in Items :
            /\ IpqHas(pm, x.id) => add(Mem, leasedItems, <<x>>) = {Mem}
            /\ \A y \in Items :
                  y.id = x.id =>
                     \A m \in addItem(Mem, leasedItems, y) :
                        IpqHas(m.pm, y.id) => addItem(m, leasedItems, x) = {m}

\* after an Add the mempool is full, and another item of a resident id pays
\* more than every resident item
C16_Witness ==
    /\ Idle
    /\ last.op = "Add"
    /\ IpqLen(pm) = maxSize
    /\ leasedItems.nil
    /\ \E x \in Items :
          /\ IpqHas(pm, x.id)
          /\ \A it \in IpqItems(pm) : it.price < x.price

\* the item passes the lease, duplicate and payer checks of add
Admissible(x) ==
    /\ ~LeaseBlocks(leasedItems, x)
    /\ ~IpqHas(pm, x.id)
    /\ ~PayerFull(MapGet(owned, x.payer), x.payer)

\* C17: an add of an admissible item x to a full mempool leaves the old
\* items plus x minus one item low of the lowest price among them, in all
\* three indexes; x is resident when it pays more than some resident item,
\* and nothing changes when it pays less than every resident item.
C17_Displacement ==
    Idle => \A x \in Items :
       (Admissible(x) /\ IpqLen(pm) = maxSize) =>
          \A m \in add(Mem, leasedItems, <<x>>) :
             /\ \E low \in IpqItems(pm) \cup {x} :
                   /\ \A it \in IpqItems(pm) \cup {x} : low.price <= it.price
                   /\ IpqItems(m.pm) = (IpqItems(pm) \cup {x}) \ {low}
                   /\ IpqIds(m.tm) = (IpqIds(tm) \cup {x.id}) \ {low.id}
                   /\ OwnedPairs(m.owned) =
                         (OwnedPairs(owned) \cup {<<x.payer, x.id>>}) \ {<<low.payer, low.id>>}
             /\ (\E it \in IpqItems(pm) : it.price < x.price) => ResidentIn(m, x)
             /\ (\A it \in IpqItems(pm) : x.price < it.price) => MembersOf(m) = Members

\* after an Add the largest mempool is full and an admissible item pays more
\* than one resident item and as much as another
C17_Witness ==
    /\ Idle
    /\ last.op = "Add"
    /\ IpqLen(pm) = maxSize
    /\ maxSize = MaxCapacity
    /\ \E x \in Items :
          /\ Admissible(x)
          /\ \E it \in IpqItems(pm) : it.price < x.price
          /\ \E it \in IpqItems(pm) : x.price = it.price

\* C18: an add of an item of an exempt payer whose id is neither leased nor
\* resident inserts it, however many items the payer owns: afterwards the
\* item is in the three indexes, unless the mempool was full and the item,
\* paying no more than any resident item, was the one evicted for capacity.
C18_ExemptNeverCapped ==
    Idle => \A x \in Items :
       (x.payer \in exemptPayers /\ ~LeaseBlocks(leasedItems, x) /\ ~IpqHas(pm, x.id)) =>
          \A m \in add(Mem, leasedItems, <<x>>) :
             \/ ResidentIn(m, x)
             \/ /\ IpqLen(pm) = maxSize
                /\ \A it \in IpqItems(pm) : x.price <= it.price

\* after an Add an exempt payer owns at least maxPayerSize >= 1 items, and
\* another item of the payer is offered while the mempool has room
C18_Witness ==
    /\ Idle
    /\ last.op = "Add"
    /\ maxPayerSize >= 1
    /\ IpqLen(pm) < maxSize
    /\ \E x \in Items :
          /\ x.payer \in exemptPayers
          /\ ~LeaseBlocks(leasedItems, x)
          /\ ~IpqHas(pm, x.id)
          /\ Cardinality(MapGet(owned, x.payer)) >= maxPayerSize

---------------------------------------------------------------------------
(* Locking *)

\* C19: while a call holds th.mu for reading, each of Has, PeekMax, PeekMin
\* and Len can take th.mu as well.
C19_ReadersShare ==
    (~mu.writer /\ mu.readers > 0) =>
        \A op \in {"Has", "PeekMax", "PeekMin", "Len"} : CanAcquire(LockMode(op))

\* C20: a writer holds th.mu alone; Build holds it as a writer from its
\* first step to its return, and meanwhile nothing but Build's own steps
\* runs; while a reader holds th.mu no index and no lease changes.
C20_WritersExclusive ==
    /\ [](mu.writer => mu.readers = 0)
    /\ [](pc # "idle" => mu.writer)
    /\ [][mu.writer => (mu'.readers = mu.readers /\ last'.op \in {"f", "Build"})]_vars
    /\ [][mu.readers > 0 => UNCHANGED <<pm, tm, owned, leasedItems>>]_vars

\* Build is between two calls of f: an item it popped from the price queue
\* is still in the time queue
C20_Witness ==
    /\ pc = "loop"
    /\ mu.writer
    /\ \E id \in IpqIds(tm) : ~IpqHas(pm, id)

---------------------------------------------------------------------------
(* Construction *)

\* New called with maxSize = 0 as well, for a payer cap of MaxPayerCap and
\* the exempt payer p1
SizingInit ==
    /\ New(0..MaxCapacity)
    /\ maxPayerSize = MaxPayerCap
    /\ exemptPayers = {"p1"}

SizingSpec == SizingInit /\ [][Next]_vars

\* C21: a mempool constructed with maxSize <= 0 is refused: New has returned
\* an error and no call has run on the mempool.
C21_InvalidSizingRejected ==
    maxSize <= 0 => (last.op = "New" /\ last.out # "nil")

---------------------------------------------------------------------------
(* Not found *)

\* the step leaves both queues and the lease set as they are, and owned with
\* the same ids for every payer
NothingChanges ==
    /\ pm' = pm
    /\ tm' = tm
    /\ OwnedPairs(owned') = OwnedPairs(owned)
    /\ leasedItems' = leasedItems

C23_OwnedHygiene ==
    Idle => \A p \in Payers : MapHas(owned, p) => MapGet(owned, p) # {}

---------------------------------------------------------------------------
(* Build *)

\* C24: while Build runs, every item it holds for restoring is in the time
\* queue and in the set of its payer, so that it is in the three indexes
\* once Build has put it back.
C24_RestoredStillIndexed ==
    pc # "idle" =>
        \A i \in 1..Len(restorableItems) :
           /\ IpqHas(tm, restorableItems[i].id)
           /\ restorableItems[i].id \in MapGet(owned, restorableItems[i].payer)

\* C25: when Build returns, no item of a payer for which f answered
\* removeAcct = true during the pass is in the price queue, the time queue
\* or owned.
C25_RemovedAccountGone ==
    [][BuildReturnRecorded =>
          \A p \in pass.dropped :
             /\ \A it \in IpqItems(pm') \cup IpqItems(tm') : it.payer # p
             /\ MapGet(owned', p) = {}]_vars

---------------------------------------------------------------------------
(* Leases *)

\* s is in non-increasing price order
PriceOrdered(s) == \A i \in 1..Len(s) : \A j \in i..Len(s) : s[i].price >= s[j].price

Min(a, b) == IF a <= b THEN a ELSE b

\* C26: LeaseItems(n), n > 0, without a lease outstanding returns
\* min(n, Len) resident items in non-increasing price order, none paying
\* less than an item left behind; the lease set becomes the set of their
\* ids, and none of them is left in the price queue, the time queue or owned.
C26_LeaseItems ==
    [][\A n \in 1..MaxLeaseCount :
          (LeaseItems(n) /\ leasedItems.nil) =>
             LET txs == last'.out
             IN  /\ Len(txs) = Min(n, IpqLen(pm))
                 /\ Cardinality(Range(txs)) = Len(txs)
                 /\ Range(txs) \subseteq IpqItems(pm)
                 /\ PriceOrdered(txs)
                 /\ \A it \in IpqItems(pm') : \A tx \in Range(txs) : it.price <= tx.price
                 /\ leasedItems' = [nil |-> FALSE, ids |-> {tx.id : tx \in Range(txs)}]
                 /\ \A tx \in Range(txs) :
                       /\ ~IpqHas(pm', tx.id)
                       /\ ~IpqHas(tm', tx.id)
                       /\ tx.id \notin MapGet(owned', tx.payer)]_vars

\* LeaseItems has returned as many items as it was asked for and left a
\* cheaper item behind
C26_Witness ==
    /\ Idle
    /\ last.op = "LeaseItems"
    /\ last.arg >= 1
    /\ Len(last.out) = last.arg
    /\ leasedItems.ids = {tx.id : tx \in Range(last.out)}
    /\ \E it \in IpqItems(pm) : it.price < last.out[1].price

\* C27: LeaseItems(0) without a lease outstanding returns no item, removes
\* nothing and leaves the lease set nil.
C27_LeaseNothing ==
    [][(LeaseItems(0) /\ leasedItems.nil) =>
          /\ last'.out = <<>>
          /\ pm' = pm /\ tm' = tm /\ owned' = owned
          /\ leasedItems'.nil]_vars

---------------------------------------------------------------------------
(* The calls of f in one pass of Build *)

\* C28: every call of f in a pass of Build is on an item that was resident
\* when the pass started and that f was not called with before in the pass
\* (restored or not), and that pays no more than any item f was called with
\* before; f is not called when the mempool is empty.
C28_CallbackOrder ==
    [][(\E v \in Verdicts : BuildIterRecorded(v)) =>
          /\ pass.start.pm # {}
          /\ last'.arg \in IpqItems(pass.start.pm)
          /\ last'.arg \notin pass.called
          /\ \A it \in pass.called : it.price >= last'.arg.price]_vars

\* f has been called twice in a pass, the first item being held for
\* restoring, the second paying less
C28_Witness ==
    /\ pc = "loop"
    /\ last.op = "f"
    /\ pass.count = 2
    /\ restorableItems # <<>>
    /\ restorableItems[1].price > last.arg.price

\* Build's loop and its return are steps of the one thread that called
\* Build: they are taken as long as f returns
BuildFairSpec ==
    /\ BuildSpec
    /\ WF_vars(\E v \in Verdicts : BuildIterRecorded(v))
    /\ WF_vars(BuildReturnRecorded)

\* C29: Build calls f at most as many times as the mempool held items when
\* Build started; Build's return puts the items to restore back into pm and
\* releases th.mu; and a Build that has started returns.
C29_BuildTerminates ==
    /\ [](pass.count <= IpqLen(pass.start.pm))
    /\ [][BuildReturnRecorded =>
            /\ \A i \in 1..Len(restorableItems) : IpqHas(pm', restorableItems[i].id)
            /\ ~mu'.writer]_vars
    /\ (pc # "idle") ~> (pc = "idle" /\ ~mu.writer)

\* f has been called as many times as the mempool held items, each time
\* answering cont = true and restore = true
C29_Witness ==
    /\ pc = "loop"
    /\ pass.count = IpqLen(pass.start.pm)
    /\ pass.count = MaxCapacity
    /\ Len(restorableItems) = pass.count
    /\ last.op = "f"
    /\ last.out.cont

=============================================================================
